---- MODULE Spec2Model ----
(***************************************************************************)
(* DayZ mod update notifier (src/mod_notifier.py): the change-detection    *)
(* loop of DayZModNotifier as a state machine.                             *)
(*                                                                         *)
(* The sqlite file is `db` (what is committed) and `txn` (what the open    *)
(* connection of check_for_updates sees: db plus its uncommitted writes).  *)
(* The Steam catalog and the Discord webhook are the environment: every    *)
(* lookup draws its outcome from Responses(batch), every delivery succeeds *)
(* or fails.  KeyboardInterrupt is an environment action of its own.       *)
(***************************************************************************)
EXTENDS Integers, Sequences, FiniteSets, TLC

(* ------------------------------ bounds -------------------------------- *)

\* Reconciliation cycles the model lets the program start.
MaxCycles == 2

\* Largest time_updated the catalog reports (timestamps are 0..MaxTs).
MaxTs == 1

\* batch_size of check_for_updates.  The source uses 100 with 68 tracked ids
\* (one batch); it is scaled down here so that mod_ids spans several batches.
batch_size == 1

\* Longest change-set handed to send_discord_notification on its own
\* (SpecNotify); the 68 tracked ids of the source allow up to 68 events.
MaxEvents == 12

\* Most entries in one catalog answer under SpecWide.
MaxEntries == 2

(* -------------------------- program constants ------------------------- *)

\* The tracked ids (68 in the source; two stand for them), in list order.
mod_ids == <<"a", "b">>

\* An id the program does not track, which a catalog response may still carry.
UntrackedId == "z"

\* run_monitor(3600) in main.
check_interval == 3600

\* time.sleep(60) after a caught fault.
cooldown == 60

\* time.sleep(1) between batches.
batch_delay == 1

\* updated_mods[:10] and len(updated_mods) - 10 in send_discord_notification.
embed_limit == 10

\* file_details['result'] of a successful lookup.
SuccessResult == 1

\* A result code other than success (Steam's "file not found").
NotFoundResult == 9

Tracked == {mod_ids[k] : k \in 1..Len(mod_ids)}

AllIds == Tracked \cup {UntrackedId}

Min(a, b) == IF a < b THEN a ELSE b

(* ------------------------- the catalog's answers ----------------------- *)

\* One element of response.publishedfiledetails: the keys the JSON object
\* carries and their values (the value of a key it lacks is never read).
Entry(keys, r, id, title, t) ==
    [keys |-> keys, result |-> r, publishedfileid |-> id, title |-> title,
     time_updated |-> t]

\* Key sets of an entry that has 'result' and 'publishedfileid'.
KeySets ==
    {{"result", "publishedfileid"} \cup opt : opt \in SUBSET {"title", "time_updated"}}

\* Entries with result = 1.  A lacking title or time_updated is written with
\* one fixed value, so that each object is enumerated once.
SuccessEntries ==
    {Entry(ks, SuccessResult, id, "T", t) :
        ks \in KeySets, id \in Tracked, t \in 1..MaxTs}
    \cup {Entry({"result", "publishedfileid", "title", "time_updated"},
                SuccessResult, UntrackedId, "T", 1)}

\* Success entries, entries with another result code, and an object that has
\* no 'result' key (file_details['result'] raises KeyError).
Entries ==
    {e \in SuccessEntries : "time_updated" \in e.keys \/ e.time_updated = 1}
    \cup {Entry({"result", "publishedfileid"}, NotFoundResult, id, "T", 1) :
             id \in Tracked}
    \cup {Entry({}, SuccessResult, mod_ids[1], "T", 1)}

\* Sequences over S of length at most n.
SeqsUpTo(S, n) == UNION {[1..k -> S] : k \in 0..n}

\* Outcomes of one POST for which get_mod_info returns None: the request
\* raises (neterr), raise_for_status raises (httperr), or the body is not
\* JSON (badjson; the JSONDecodeError of requests >= 2.27 is a
\* RequestException).
RequestFailures == {"neterr", "httperr", "badjson"}

\* Bodies that parse as JSON but hold no result list: no 'response' key
\* (noresponse), or a 'response' object without 'publishedfiledetails' (nolist).
ShapeFailures == {"noresponse", "nolist"}

\* Everything the catalog may answer to a request for `batch`.
Responses(batch) ==
    {[kind |-> k, details |-> <<>>] : k \in RequestFailures \cup ShapeFailures}
    \cup {[kind |-> "ok", details |-> d] : d \in SeqsUpTo(Entries, Len(batch))}

(* ------------------------------- state --------------------------------- *)

VARIABLES
    mode,          \* "once" (--once) or "monitor"
    dbfile,        \* the sqlite file at startup: "present", "missing", "unreadable"
    pc,            \* where the program is
    db,            \* committed rows of mod_updates: id -> row
    txn,           \* rows as seen through the open connection
    updated_mods,  \* the change-set being accumulated / returned
    i,             \* offset of the current batch in mod_ids
    now,           \* time.time()
    cycle,         \* cycles started so far
    pre,           \* history: db when the current cycle started
    started,       \* history: now when the current cycle started
    seen,          \* history: success results reconciled in this cycle
    outcomes,      \* history: per batch of this cycle: "ok" (a result list),
                   \*   "failed" (skipped) or "malformed" (no list, raised)
    posts,         \* history: calls to the webhook in this cycle
    delivery,      \* history: "none", "sent" or "lost" for this cycle
    intAt,         \* history: pc at which KeyboardInterrupt arrived, or "none"
    prev_mods,     \* history: the change-set as the previous cycle left it
    lastExit,      \* history: how the last run_check ended: "none", "returned", "raised"
    script,        \* the catalog's fixed answers per batch (replay only)
    payload,       \* history: the JSON body of this cycle's webhook call, or NoPayload
    requests,      \* history: the lookups of this cycle: ids posted and the clock
    handed         \* history: every ChangeEvent passed to the webhook, all cycles

vars == <<mode, dbfile, pc, db, txn, updated_mods, i, now, cycle, pre, started,
          seen, outcomes, posts, delivery, intAt, lastExit, prev_mods, script, payload, requests, handed>>

(* ---------------------------- state store ------------------------------ *)

\* A row of mod_updates (the primary key mod_id is the function argument).
Row(last_updated, mod_name, last_checked) ==
    [last_updated |-> last_updated, mod_name |-> mod_name,
     last_checked |-> last_checked]

NoRows == [id \in {} |-> Row(0, "T", 0)]

\* INSERT INTO mod_updates / UPDATE ... SET last_updated, mod_name, last_checked.
Upsert(rows, id, row) == (id :> row) @@ rows

\* UPDATE mod_updates SET last_checked = ? WHERE mod_id = ?.
TouchChecked(rows, id, t) == [rows EXCEPT ![id].last_checked = t]

\* Stores a previous run of the program may have left in the file.
PriorStores ==
    {[id \in S |-> Row(0, "T", 0)] : S \in SUBSET Tracked}

(* ----------------------------- reconciler ------------------------------ *)

\* file_details.get('title', f'Mod {mod_id}')
ModName(e) ==
    IF "title" \in e.keys THEN e.title ELSE "Mod " \o e.publishedfileid

\* file_details.get('time_updated', 0)
LastUpdated(e) == IF "time_updated" \in e.keys THEN e.time_updated ELSE 0

\* datetime.fromtimestamp(last_updated).strftime('%Y-%m-%d %H:%M:%S')
FormatTime(t) == <<"%Y-%m-%d %H:%M:%S", t>>

Url(id) == "https://steamcommunity.com/sharedfiles/filedetails/?id=" \o id

ChangeEvent(id, name, last_updated) ==
    [id |-> id, name |-> name, updated |-> FormatTime(last_updated),
     url |-> Url(id)]

\* Mutant of IsNewer: the comparison the wrong way round.
IsNewerFlipped(stored, observed) == stored > observed

\* Mutant of IsNewer: an equal timestamp counts as an update.
IsNewerOrSame(stored, observed) == stored <= observed

\* Mutant of IsNewer: any difference counts as an update.
IsNewerDiffers(stored, observed) == stored # observed

\* elif result[0] < last_updated
IsNewer(stored, observed) == stored < observed

\* Mutant of InsertNew: a first observation is reported as a change.
InsertNewEmits(st, mod_id, mod_name, last_updated, t) ==
    [st EXCEPT
        !.txn = Upsert(@, mod_id, Row(last_updated, mod_name, t)),
        !.updated = Append(@, ChangeEvent(mod_id, mod_name, last_updated))]

\* if result is None: INSERT the new mod; no change event.
InsertNew(st, mod_id, mod_name, last_updated, t) ==
    [st EXCEPT !.txn = Upsert(@, mod_id, Row(last_updated, mod_name, t))]

\* Mutant of UpdateChanged: the UPDATE leaves last_updated as it was.
UpdateChangedKeepsStamp(st, mod_id, mod_name, last_updated, t) ==
    [st EXCEPT
        !.txn = Upsert(@, mod_id, Row(@[mod_id].last_updated, mod_name, t)),
        !.updated = Append(@, ChangeEvent(mod_id, mod_name, last_updated))]

\* Mutant of UpdateChanged: the event is put at the head of the change-set.
UpdateChangedPrepends(st, mod_id, mod_name, last_updated, t) ==
    [st EXCEPT
        !.txn = Upsert(@, mod_id, Row(last_updated, mod_name, t)),
        !.updated = <<ChangeEvent(mod_id, mod_name, last_updated)>> \o @]

\* elif result[0] < last_updated: UPDATE all three columns, append the event.
UpdateChanged(st, mod_id, mod_name, last_updated, t) ==
    [st EXCEPT
        !.txn = Upsert(@, mod_id, Row(last_updated, mod_name, t)),
        !.updated = Append(@, ChangeEvent(mod_id, mod_name, last_updated))]

\* Mutant of TouchUnchanged: the no-change branch also stores the name.
TouchUnchangedRenames(st, mod_id, mod_name, last_updated, t) ==
    [st EXCEPT !.txn = Upsert(@, mod_id,
                              Row(@[mod_id].last_updated, mod_name, t))]

\* else: UPDATE last_checked only.
TouchUnchanged(st, mod_id, mod_name, last_updated, t) ==
    [st EXCEPT !.txn = TouchChecked(@, mod_id, t)]

\* The body of the loop over publishedfiledetails for one success entry `e`
\* of batch number b, the clock reading t.  st = [txn, updated, seen, fault];
\* seen logs what was observed, for the properties below.
ReconcileEntry(st, e, b, t) ==
    LET mod_id       == e.publishedfileid
        mod_name     == ModName(e)
        last_updated == LastUpdated(e)
        obs == [batch |-> b, id |-> mod_id, last_updated |-> last_updated,
                name |-> mod_name, at |-> t]
        st1 == [st EXCEPT !.seen = Append(@, obs)]
    IN  IF mod_id \notin DOMAIN st.txn
        THEN InsertNew(st1, mod_id, mod_name, last_updated, t)
        ELSE IF IsNewer(st.txn[mod_id].last_updated, last_updated)
        THEN UpdateChanged(st1, mod_id, mod_name, last_updated, t)
        ELSE TouchUnchanged(st1, mod_id, mod_name, last_updated, t)

\* Mutant of ReconcileList: an entry with another result code still has the
\* last_checked of its row set.
RECURSIVE ReconcileListTouchesFailed(_, _, _, _)
ReconcileListTouchesFailed(st, details, b, t) ==
    IF details = <<>> THEN st
    ELSE LET e == Head(details)
         IN  IF "result" \notin e.keys THEN [st EXCEPT !.fault = TRUE]
             ELSE IF e.result # SuccessResult
             THEN ReconcileListTouchesFailed(
                      IF e.publishedfileid \in DOMAIN st.txn
                      THEN [st EXCEPT !.txn = TouchChecked(@, e.publishedfileid, t)]
                      ELSE st,
                      Tail(details), b, t)
             ELSE ReconcileListTouchesFailed(ReconcileEntry(st, e, b, t),
                                             Tail(details), b, t)

\* for file_details in mod_data['response']['publishedfiledetails']: entries
\* in response order; an entry without 'result' raises KeyError and ends the
\* loop with the writes made so far still in the open transaction.
RECURSIVE ReconcileList(_, _, _, _)
ReconcileList(st, details, b, t) ==
    IF details = <<>> THEN st
    ELSE LET e == Head(details)
         IN  IF "result" \notin e.keys THEN [st EXCEPT !.fault = TRUE]
             ELSE IF e.result # SuccessResult
             THEN ReconcileList(st, Tail(details), b, t)
             ELSE ReconcileList(ReconcileEntry(st, e, b, t), Tail(details), b, t)

(* ---------------------------- catalog client --------------------------- *)

None == [kind |-> "None", details |-> <<>>]

\* get_mod_info: the JSON body, or None when the request raised.
GetModInfo(r) == IF r.kind \in RequestFailures THEN None ELSE r

\* if not mod_data or 'response' not in mod_data: continue
SkipBatch(mod_data) == mod_data = None \/ mod_data.kind = "noresponse"

\* Mutant of Batch: the slice starts at the head of the list every time.
BatchFromStart(j) == SubSeq(mod_ids, 1, Min(j + batch_size, Len(mod_ids)))

\* self.mod_ids[i:i + batch_size]
Batch(j) == SubSeq(mod_ids, j + 1, Min(j + batch_size, Len(mod_ids)))

BatchNo(j) == (j \div batch_size) + 1

\* The ids requested in batch number b.
BatchIds(b) ==
    LET s == Batch((b - 1) * batch_size) IN {s[k] : k \in 1..Len(s)}

\* for i in range(0, len(self.mod_ids), batch_size): the next iteration, or
\* the commit after the loop.
AfterBatch(j) == IF j < Len(mod_ids) THEN "fetch" ELSE "commit"

(* ------------------------------ notifier ------------------------------- *)

\* The value a field of the embed leaves empty.
NoTime == <<"", 0>>

\* One element of embed["fields"].  `name` is the icon and the text after it;
\* the f-string of `value` is its template and the values it substitutes.
Field(name, template, updated, id, url, count, inline) ==
    [name |-> name,
     value |-> [template |-> template, updated |-> updated, id |-> id,
                url |-> url, count |-> count],
     inline |-> inline]

\* The field appended for one mod of updated_mods[:10].
ItemField(mod) ==
    Field(<<"package", mod.name>>,
          "**Updated:** {updated} **ID:** {id} [View on Workshop]({url})",
          mod.updated, mod.id, mod.url, 0, TRUE)

\* The field appended when len(updated_mods) > 10.
MoreField(n) ==
    Field(<<"plus", "Additional Updates">>,
          "And {count} more mods were updated.", NoTime, "", "", n, FALSE)

\* The field that is always appended last.
ActionField ==
    Field(<<"warning", "Action Required">>,
          "Your GTX Gaming server may need to be restarted to apply these mod updates.",
          NoTime, "", "", 0, FALSE)

\* Mutant of Listed: every event gets a field of its own.
ListedAll(u) == u

\* updated_mods[:10]
Listed(u) == SubSeq(u, 1, Min(Len(u), embed_limit))

\* len(updated_mods) - 10
MoreCount(u) == Len(u) - embed_limit

\* embed["fields"] as the three appends build it.
Fields(u) ==
    [k \in 1..Len(Listed(u)) |-> ItemField(Listed(u)[k])]
    \o (IF Len(u) > embed_limit THEN <<MoreField(MoreCount(u))>> ELSE <<>>)
    \o <<ActionField>>

\* The embed, built at clock reading t.
Embed(u, t) ==
    [title |-> "DayZ Server Mod Updates Detected!",
     description |-> <<"**{} mod(s) have been updated**", Len(u)>>,
     color |-> 65280,
     timestamp |-> <<"isoformat", t>>,
     footer |-> [text |-> "GTX Gaming DayZ Server Monitor"],
     fields |-> Fields(u)]

\* The JSON body posted to the webhook.
Payload(u, t) ==
    [embeds |-> <<Embed(u, t)>>,
     content |-> "@here Mod updates detected for DayZ server!"]

\* No body was posted.
NoPayload == [embeds |-> <<>>, content |-> ""]

(* ------------------------------ scheduler ------------------------------ *)

\* Mutant of FaultTarget: run_monitor has no `except Exception`.
FaultTargetUncaught(m) == "crashed"

\* Where an exception raised inside run_check lands: run_monitor's
\* `except Exception` (cooldown), or main's caller in --once mode.
FaultTarget(m) == IF m = "monitor" THEN "cooldown" ELSE "crashed"

\* Mutant of AfterCheck: main ignores --once and always monitors.
AfterCheckLoops(m) == "interval"

\* Where the program goes when run_check returns: main returns (--once), or
\* run_monitor sleeps check_interval.
AfterCheck(m) == IF m = "once" THEN "exit" ELSE "interval"

\* Mutant of DropConnection: every statement is committed as it executes.
DropConnectionAutocommit(committed, pending) == pending

\* The rows in the file after the connection of check_for_updates is dropped
\* without conn.commit() (an exception or an interrupt unwinds the call):
\* sqlite rolls the open transaction back.
DropConnection(committed, pending) == committed

\* Mutant of CommitRows: the commit is missing.
CommitRowsNothing(committed, pending) == committed

\* conn.commit(): the pending writes become the committed rows.
CommitRows(committed, pending) == pending

\* if updated_mods: (run_check) / if not updated_mods: return (notifier)
NeedsNotify(u) == u # <<>>

\* Mutant of AfterNotify: the notifier lets RequestException through.
AfterNotifyRaises(m, ok) == IF ok THEN AfterCheck(m) ELSE FaultTarget(m)

\* send_discord_notification returns normally whether requests.post succeeded
\* or raised RequestException.
AfterNotify(m, ok) == AfterCheck(m)

\* The positions of run_monitor's try block, where KeyboardInterrupt is caught.
TryPcs == {"ready", "fetch", "sleep", "commit", "notify", "interval"}

\* The positions inside a reconciliation cycle (run_check is executing).
CyclePcs == {"fetch", "sleep", "commit", "notify"}

\* except KeyboardInterrupt: break covers the try block only; the cooldown
\* sleep runs inside the `except Exception` handler, outside of it.
InterruptTarget(p) == IF p \in TryPcs THEN "stopped" ELSE "escaped"

(* ------------------------------- actions ------------------------------- *)

InitProgram ==
    /\ mode \in {"once", "monitor"}
    /\ dbfile \in {"present", "missing", "unreadable"}
    /\ pc = "new"
    /\ db \in (IF dbfile = "present" THEN PriorStores ELSE {NoRows})
    /\ txn = db
    /\ updated_mods = <<>>
    /\ i = 0
    /\ now = 1
    /\ cycle = 0
    /\ pre = db
    /\ started = now
    /\ seen = <<>>
    /\ outcomes = <<>>
    /\ posts = 0
    /\ delivery = "none"
    /\ intAt = "none"
    /\ lastExit = "none"
    /\ prev_mods = <<>>
    /\ payload = NoPayload
    /\ requests = <<>>
    /\ handed = <<>>

\* The catalog answers every request afresh (script is not used).
Init == InitProgram /\ script = <<>>

\* DayZModNotifier.__init__ -> init_database: sqlite3.connect creates a
\* missing file, CREATE TABLE IF NOT EXISTS keeps the rows of a present one,
\* and a file sqlite cannot open or read raises out of the constructor.
InitDatabase ==
    /\ pc = "new"
    /\ pc' = IF dbfile = "unreadable" THEN "fatal" ELSE "ready"
    /\ UNCHANGED <<mode, dbfile, db, txn, updated_mods, i, now, cycle, pre,
                   started, seen, outcomes, posts, delivery, intAt, lastExit, prev_mods, script, payload, requests, handed>>

\* run_check up to the first batch: connect, updated_mods = [].
StartCycle ==
    /\ pc = "ready"
    /\ cycle < MaxCycles
    /\ cycle' = cycle + 1
    /\ txn' = db
    /\ updated_mods' = <<>>
    /\ i' = 0
    /\ pre' = db
    /\ started' = now
    /\ seen' = <<>>
    /\ outcomes' = <<>>
    /\ posts' = 0
    /\ delivery' = "none"
    /\ pc' = AfterBatch(0)
    /\ prev_mods' = updated_mods
    /\ payload' = NoPayload
    /\ requests' = <<>>
    /\ UNCHANGED <<mode, dbfile, db, now, intAt, lastExit, script, handed>>

\* An exception leaves check_for_updates: the connection is dropped with its
\* transaction uncommitted, the change-set is lost.
Raise ==
    /\ pc' = FaultTarget(mode)
    /\ db' = DropConnection(db, txn)
    /\ txn' = db'
    /\ updated_mods' = <<>>
    /\ lastExit' = "raised"

\* One iteration of the batch loop, the catalog answering r.
Fetch(r) ==
    /\ pc = "fetch"
    /\ requests' = Append(requests, [ids |-> Batch(i), at |-> now])
    /\ LET mod_data == GetModInfo(r)
           st0 == [txn |-> txn, updated |-> updated_mods, seen |-> seen,
                   fault |-> FALSE]
           st  == ReconcileList(st0, mod_data.details, BatchNo(i), now)
       IN  IF SkipBatch(mod_data)
           THEN /\ i' = i + batch_size
                /\ pc' = AfterBatch(i')
                /\ outcomes' = Append(outcomes, "failed")
                /\ UNCHANGED <<db, txn, updated_mods, seen, lastExit>>
           ELSE IF mod_data.kind = "nolist"
           THEN /\ Raise
                /\ outcomes' = Append(outcomes, "malformed")
                /\ UNCHANGED <<i, seen>>
           ELSE IF st.fault
           THEN /\ Raise
                /\ outcomes' = Append(outcomes, "ok")
                /\ seen' = st.seen
                /\ UNCHANGED i
           ELSE /\ txn' = st.txn
                /\ updated_mods' = st.updated
                /\ seen' = st.seen
                /\ outcomes' = Append(outcomes, "ok")
                /\ pc' = "sleep"
                /\ UNCHANGED <<db, i, lastExit>>
    /\ UNCHANGED <<mode, dbfile, now, cycle, pre, started, posts, delivery,
                   intAt, prev_mods, script, payload, handed>>

\* The catalog is free to answer anything.
FetchAny == \E r \in Responses(Batch(i)) : Fetch(r)

\* The catalog answers each batch as the script says, in every cycle.
FetchScripted == Fetch(script[BatchNo(i)])

\* time.sleep(1) at the end of the loop body.
BatchSleep ==
    /\ pc = "sleep"
    /\ now' = now + batch_delay
    /\ i' = i + batch_size
    /\ pc' = AfterBatch(i')
    /\ UNCHANGED <<mode, dbfile, db, txn, updated_mods, cycle, pre, started,
                   seen, outcomes, posts, delivery, intAt, lastExit, prev_mods, script, payload, requests, handed>>

\* conn.commit(); conn.close(); return updated_mods, and run_check's test of
\* it: with nothing to report run_check returns here.
Commit ==
    /\ pc = "commit"
    /\ db' = CommitRows(db, txn)
    /\ txn' = db'
    /\ IF NeedsNotify(updated_mods)
       THEN pc' = "notify" /\ UNCHANGED lastExit
       ELSE pc' = AfterCheck(mode) /\ lastExit' = "returned"
    /\ UNCHANGED <<mode, dbfile, updated_mods, i, now, cycle, pre, started,
                   seen, outcomes, posts, delivery, intAt, prev_mods, script, payload, requests, handed>>

\* send_discord_notification(updated_mods): nothing for an empty list;
\* otherwise the body is built and handed to one requests.post, which
\* succeeds or raises RequestException; run_check returns after it.
Notify ==
    /\ pc = "notify"
    /\ IF ~NeedsNotify(updated_mods)
       THEN /\ pc' = AfterCheck(mode)
            /\ lastExit' = "returned"
            /\ UNCHANGED <<posts, delivery, payload, handed>>
       ELSE \E ok \in BOOLEAN :
               /\ posts' = posts + 1
               /\ payload' = Payload(updated_mods, now)
               /\ handed' = handed \o updated_mods
               /\ delivery' = IF ok THEN "sent" ELSE "lost"
               /\ pc' = AfterNotify(mode, ok)
               /\ lastExit' = IF pc' = AfterCheck(mode) THEN "returned" ELSE "raised"
    /\ UNCHANGED <<mode, dbfile, db, txn, updated_mods, i, now, cycle, pre,
                   started, seen, outcomes, intAt, prev_mods, script, requests>>

\* time.sleep(check_interval) in run_monitor's try block.
IntervalSleep ==
    /\ pc = "interval"
    /\ now' = now + check_interval
    /\ pc' = "ready"
    /\ UNCHANGED <<mode, dbfile, db, txn, updated_mods, i, cycle, pre, started,
                   seen, outcomes, posts, delivery, intAt, lastExit, prev_mods, script, payload, requests, handed>>

\* time.sleep(60) in run_monitor's `except Exception` handler.
CooldownSleep ==
    /\ pc = "cooldown"
    /\ now' = now + cooldown
    /\ pc' = "ready"
    /\ UNCHANGED <<mode, dbfile, db, txn, updated_mods, i, cycle, pre, started,
                   seen, outcomes, posts, delivery, intAt, lastExit, prev_mods, script, payload, requests, handed>>

\* KeyboardInterrupt arrives while run_monitor is looping; an open connection
\* is dropped with its transaction uncommitted.
Interrupt ==
    /\ mode = "monitor"
    /\ pc \in TryPcs \cup {"cooldown"}
    /\ intAt' = pc
    /\ pc' = InterruptTarget(pc)
    /\ db' = DropConnection(db, txn)
    /\ txn' = db'
    /\ UNCHANGED <<mode, dbfile, updated_mods, i, now, cycle, pre, started,
                   seen, outcomes, posts, delivery, lastExit, prev_mods, script, payload, requests, handed>>

Program ==
    \/ InitDatabase
    \/ StartCycle
    \/ FetchAny
    \/ BatchSleep
    \/ Commit
    \/ Notify
    \/ IntervalSleep
    \/ CooldownSleep

Next == Program \/ Interrupt

Spec == Init /\ [][Next]_vars

(* The same program against a catalog that answers every cycle alike: the   *)
(* answer to each batch is fixed at the start.                              *)

NumBatches == (Len(mod_ids) + batch_size - 1) \div batch_size

Scripts ==
    {sc \in [1..NumBatches -> UNION {Responses(Batch((b - 1) * batch_size)) :
                                        b \in 1..NumBatches}] :
        \A b \in 1..NumBatches : sc[b] \in Responses(Batch((b - 1) * batch_size))}

InitReplay == InitProgram /\ script \in Scripts

ProgramReplay ==
    \/ InitDatabase
    \/ StartCycle
    \/ FetchScripted
    \/ BatchSleep
    \/ Commit
    \/ Notify
    \/ IntervalSleep
    \/ CooldownSleep

NextReplay == ProgramReplay \/ Interrupt

SpecReplay == InitReplay /\ [][NextReplay]_vars

(* The program is a single thread that takes its next step whenever it has  *)
(* one (every sleep ends, every request returns or times out); nothing      *)
(* forces an interrupt to arrive.                                           *)
FairSpec == Spec /\ WF_vars(Program)

(* The same program against a catalog whose answers list up to MaxEntries   *)
(* complete success entries in any order (as the answer to a batch of the   *)
(* source's size does), or fail.                                            *)

FullEntries ==
    {Entry({"result", "publishedfileid", "title", "time_updated"},
           SuccessResult, id, "T", t) : id \in Tracked, t \in 1..MaxTs}

WideResponses ==
    {[kind |-> k, details |-> <<>>] : k \in {"neterr", "nolist"}}
    \cup {[kind |-> "ok", details |-> d] : d \in SeqsUpTo(FullEntries, MaxEntries)}

FetchWide == \E r \in WideResponses : Fetch(r)

ProgramWide ==
    \/ InitDatabase
    \/ StartCycle
    \/ FetchWide
    \/ BatchSleep
    \/ Commit
    \/ Notify
    \/ IntervalSleep
    \/ CooldownSleep

NextWide == ProgramWide \/ Interrupt

SpecWide == Init /\ [][NextWide]_vars

(* send_discord_notification on its own: it is called with a change-set of  *)
(* any length up to MaxEvents (the empty one included, which run_check       *)
(* never passes), the store holding the rows those events were committed to. *)

ChangeSets == SeqsUpTo({ChangeEvent(id, "T", 1) : id \in Tracked}, MaxEvents)

InitNotify ==
    /\ mode \in {"once", "monitor"}
    /\ dbfile = "present"
    /\ pc = "notify"
    /\ db = [id \in Tracked |-> Row(1, "T", 1)]
    /\ txn = db
    /\ updated_mods \in ChangeSets
    /\ i = Len(mod_ids)
    /\ now = 1
    /\ cycle = 1
    /\ pre = db
    /\ started = now
    /\ seen = <<>>
    /\ outcomes = <<>>
    /\ posts = 0
    /\ delivery = "none"
    /\ intAt = "none"
    /\ lastExit = "none"
    /\ prev_mods = <<>>
    /\ payload = NoPayload
    /\ requests = <<>>
    /\ handed = <<>>
    /\ script = <<>>

NextNotify == Notify

SpecNotify == InitNotify /\ [][NextNotify]_vars

(* ------------------------- notions for the claims ---------------------- *)

\* run_check has just returned: the cycle ran to its end.
Completed == pc \in {"interval", "exit"}

\* Positions in `seen` of the success results for id in this cycle.
ObsOf(id) == {k \in 1..Len(seen) : seen[k].id = id}

\* The cycle carried exactly one success result for id.
OneResult(id) == Cardinality(ObsOf(id)) = 1

\* That result.
TheObs(id) == seen[CHOOSE k \in ObsOf(id) : TRUE]

\* Positions in the change-set of the ChangeEvents for id.
EventsFor(id) == {k \in 1..Len(updated_mods) : updated_mods[k].id = id}

(* -------------------------------- C1 ----------------------------------- *)

\* C1: when a cycle has run to its end, every id that had a row before the
\* cycle and whose (single) success result of the cycle carries a last_updated
\* strictly greater than the stored one has exactly one ChangeEvent in the
\* cycle's change-set, and its committed last_updated is the observed value.
C1_ChangedEmitsOnce ==
    Completed =>
        \A id \in AllIds :
            (/\ id \in DOMAIN pre
             /\ OneResult(id)
             /\ TheObs(id).last_updated > pre[id].last_updated)
            => /\ Cardinality(EventsFor(id)) = 1
               /\ id \in DOMAIN db
               /\ db[id].last_updated = TheObs(id).last_updated

C1_Witness ==
    /\ Completed
    /\ \E id \in Tracked :
          /\ id \in DOMAIN pre
          /\ OneResult(id)
          /\ TheObs(id).last_updated > pre[id].last_updated

(* -------------------------------- C2 ----------------------------------- *)

\* C2: when a cycle has run to its end, every id that had no row before the
\* cycle and was returned with a (single) success result has a committed row
\* whose last_updated is the observed value, and the change-set holds no
\* ChangeEvent for it.
C2_NewRecordedSilently ==
    Completed =>
        \A id \in AllIds :
            (id \notin DOMAIN pre /\ OneResult(id))
            => /\ id \in DOMAIN db
               /\ db[id].last_updated = TheObs(id).last_updated
               /\ EventsFor(id) = {}

C2_Witness ==
    /\ Completed
    /\ \E id \in Tracked : id \notin DOMAIN pre /\ OneResult(id)
    /\ updated_mods # <<>>

(* -------------------------------- C3 ----------------------------------- *)

\* C3: when a cycle has run to its end, every id whose (single) observed
\* last_updated is less than or equal to the stored one has no ChangeEvent,
\* keeps its last_updated and its name, and has last_checked set to the
\* clock reading of the cycle at which it was reconciled (a time between the
\* cycle's start and its end).
C3_UnchangedOnlyTouched ==
    Completed =>
        \A id \in AllIds :
            (/\ id \in DOMAIN pre
             /\ OneResult(id)
             /\ TheObs(id).last_updated <= pre[id].last_updated)
            => /\ EventsFor(id) = {}
               /\ db[id].last_updated = pre[id].last_updated
               /\ db[id].mod_name = pre[id].mod_name
               /\ db[id].last_checked = TheObs(id).at
               /\ started <= db[id].last_checked
               /\ db[id].last_checked <= now

\* An older timestamp and another name were observed for a stored id.
C3_Witness ==
    /\ Completed
    /\ \E id \in Tracked :
          /\ id \in DOMAIN pre
          /\ OneResult(id)
          /\ TheObs(id).last_updated < pre[id].last_updated
          /\ TheObs(id).name # pre[id].mod_name
          /\ pre[id].last_checked < started

(* -------------------------------- C4 ----------------------------------- *)

\* C4 (under SpecReplay, where the catalog answers every cycle alike): when a
\* cycle that follows another cycle has run to its end, its change-set is
\* empty and it made no call to the webhook.  (With identical answers the
\* earlier cycle raised iff this one does, so it ran to its end as well.)
C4_SecondCycleSilent ==
    (Completed /\ cycle >= 2) => (updated_mods = <<>> /\ posts = 0)

\* The second cycle ends after a first cycle that did report changes.
C4_Witness ==
    /\ Completed
    /\ cycle = 2
    /\ prev_mods # <<>>
    /\ seen # <<>>

(* -------------------------------- C5 ----------------------------------- *)

\* C5: no step of the program (a commit, a faulting or interrupted cycle, a
\* failed batch) removes a committed row or lowers its committed
\* last_updated.
C5_RowsKeptAndMonotone ==
    [][\A id \in DOMAIN db :
          /\ id \in DOMAIN db'
          /\ db'[id].last_updated >= db[id].last_updated]_vars

\* A cycle that observed an older timestamp than the stored one was committed.
C5_Witness ==
    /\ Completed
    /\ \E k \in 1..Len(seen) :
          /\ seen[k].id \in DOMAIN pre
          /\ seen[k].last_updated < pre[seen[k].id].last_updated
          /\ db[seen[k].id].last_updated = pre[seen[k].id].last_updated

(* -------------------------------- C6 ----------------------------------- *)

\* The batch numbers of this cycle whose lookup had the given outcome.
BatchesWith(o) == {b \in 1..Len(outcomes) : outcomes[b] = o}

\* The row of id is exactly what it was before the cycle (or still missing).
Untouched(id) ==
    IF id \in DOMAIN pre
    THEN id \in DOMAIN db /\ db[id] = pre[id]
    ELSE id \notin DOMAIN db

\* What reconciling one result o leaves in last_updated.
Reconciled(id, o) ==
    IF id \in DOMAIN pre /\ pre[id].last_updated >= o.last_updated
    THEN pre[id].last_updated
    ELSE o.last_updated

\* C6: when a cycle in which one batch failed and another succeeded has run
\* to its end, every id of a failed batch (which no other batch's response
\* reported) has its row exactly as before the cycle, or still has none; and
\* every id the successful batches returned a (single) success result for has
\* a committed row carrying the reconciled last_updated and the last_checked
\* of this cycle.
C6_FailedBatchIsolated ==
    (Completed /\ BatchesWith("failed") # {} /\ BatchesWith("ok") # {}) =>
        /\ \A b \in BatchesWith("failed") :
              \A id \in BatchIds(b) : ObsOf(id) = {} => Untouched(id)
        /\ \A id \in AllIds :
              OneResult(id) =>
                 /\ id \in DOMAIN db
                 /\ db[id].last_updated = Reconciled(id, TheObs(id))
                 /\ db[id].last_checked = TheObs(id).at
                 /\ db[id].last_checked >= started

\* Batch 1 succeeded and changed a stored id, batch 2 failed on a stored id.
C6_Witness ==
    /\ Completed
    /\ outcomes = <<"ok", "failed">>
    /\ updated_mods # <<>>
    /\ \E id \in BatchIds(1) : OneResult(id) /\ id \in DOMAIN pre
    /\ \E id \in BatchIds(2) : ObsOf(id) = {} /\ id \in DOMAIN pre

(* -------------------------------- C7 ----------------------------------- *)

\* C7 as claimed: a lookup that fails as a whole (no result list was
\* obtained) never makes the cycle raise.  The code raises KeyError for a
\* JSON body that has 'response' but no 'publishedfiledetails'.
C7_BatchFailureNeverRaises ==
    (outcomes # <<>> /\ outcomes[Len(outcomes)] \in {"failed", "malformed"})
    => pc \notin {"cooldown", "crashed"}

(* -------------------------------- C8 ----------------------------------- *)

\* C8 (under FairSpec): in continuous mode a fault raised inside a cycle never
\* ends the loop; it brings the loop to its cooldown, which lasts `cooldown`
\* seconds and is left only for the top of the loop (or by an interrupt);
\* and after every faulting cycle a further cycle is eventually started,
\* unless an interrupt arrives first (or the model's MaxCycles is used up).
C8_FaultRecovered ==
    /\ [](mode = "monitor" => pc # "crashed")
    /\ [][(mode = "monitor" /\ lastExit' = "raised" /\ pc \in CyclePcs
           /\ pc' \notin CyclePcs /\ intAt' = intAt) => pc' = "cooldown"]_vars
    /\ [][pc = "cooldown" =>
            \/ pc' = "ready" /\ now' = now + cooldown
            \/ pc' = "escaped" /\ intAt' = "cooldown"]_vars
    /\ (pc = "cooldown") ~> (pc = "fetch" \/ intAt # "none" \/ cycle = MaxCycles)

\* A cycle is running after a cycle that raised.
C8_Witness ==
    /\ mode = "monitor"
    /\ pc = "fetch"
    /\ cycle = 2
    /\ lastExit = "raised"
    /\ intAt = "none"

(* -------------------------------- C9 ----------------------------------- *)

\* C9 as claimed: an interrupt never stops the loop inside a cycle and never
\* leaves run_monitor unhandled.  The code breaks out of the loop wherever
\* in run_check the interrupt arrives, and does not catch it during the
\* cooldown sleep.
C9_InterruptOnlyBetweenCycles ==
    /\ intAt \notin CyclePcs
    /\ pc # "escaped"

(* -------------------------------- C10 ---------------------------------- *)

\* C10: the webhook is called at most once per cycle; when a cycle has run to
\* its end it was called exactly once if the change-set is non-empty and not
\* at all if it is empty; and a failed delivery was the only call, after
\* which run_check has returned normally (the loop sleeps its regular
\* interval, or main exits: never the cooldown or a crash).
C10_NotifyOnceBestEffort ==
    /\ posts <= 1
    /\ Completed => posts = (IF updated_mods # <<>> THEN 1 ELSE 0)
    /\ delivery = "lost" =>
          /\ posts = 1
          /\ lastExit = "returned"
          /\ pc \in {AfterCheck(mode), "ready", "stopped"}

\* A delivery failed and the loop is in its regular interval sleep.
C10_Witness ==
    /\ delivery = "lost"
    /\ posts = 1
    /\ pc = "interval"
    /\ updated_mods # <<>>

(* -------------------------------- C11 ---------------------------------- *)

\* The fields of the posted embed (none when nothing was posted).
PostedFields == IF payload = NoPayload THEN <<>> ELSE payload.embeds[1].fields

\* Positions of the per-mod fields and of the "more" fields in the embed.
ItemEntries == {k \in 1..Len(PostedFields) : PostedFields[k].name[1] = "package"}

MoreEntries ==
    {k \in 1..Len(PostedFields) : PostedFields[k].name[2] = "Additional Updates"}

\* C11 (under SpecNotify): the notifier called with n events posts nothing
\* when n = 0 and one message otherwise; the message carries exactly
\* min(n, 10) per-mod entries, the k-th of them describing the k-th event of
\* the change-set, and exactly one "N more" entry with N = n - 10 when
\* n > 10, none when n <= 10.
C11_MessageCapped ==
    LET n == Len(updated_mods)
        m == IF n < 10 THEN n ELSE 10
    IN  /\ n = 0 => (posts = 0 /\ payload = NoPayload)
        /\ (n > 0 /\ pc # "notify") => (posts = 1 /\ payload # NoPayload)
        /\ posts > 0 =>
              /\ ItemEntries = 1..m
              /\ \A k \in ItemEntries :
                    /\ PostedFields[k].name[2] = updated_mods[k].name
                    /\ PostedFields[k].value.id = updated_mods[k].id
                    /\ PostedFields[k].value.updated = updated_mods[k].updated
                    /\ PostedFields[k].value.url = updated_mods[k].url
              /\ Cardinality(MoreEntries) = (IF n > 10 THEN 1 ELSE 0)
              /\ \A k \in MoreEntries : PostedFields[k].value.count = n - 10

\* Twelve events were posted: ten entries, "2 more" and the closing advice.
C11_Witness ==
    /\ posts = 1
    /\ Len(updated_mods) = 12
    /\ updated_mods[1] # updated_mods[2]
    /\ Len(PostedFields) = 12
    /\ MoreEntries = {11}

(* -------------------------------- C12 ---------------------------------- *)

\* The ids of the given lookups, in request order.
RECURSIVE RequestedIds(_)
RequestedIds(rs) ==
    IF rs = <<>> THEN <<>> ELSE Head(rs).ids \o RequestedIds(Tail(rs))

\* ceil(Len(mod_ids) / batch_size)
CeilBatches ==
    CHOOSE q \in 0..Len(mod_ids) :
        q * batch_size >= Len(mod_ids) /\ (q - 1) * batch_size < Len(mod_ids)

\* The batch loop of the current cycle has run to its end.
LoopDone == pc \in {"commit", "notify", "interval", "exit"}

C13_DelayBetweenLookups ==
    \A k \in 2..Len(requests) :
        requests[k].at >= requests[k - 1].at + batch_delay

(* -------------------------------- C14 ---------------------------------- *)

\* The process has ended: main returned, or an exception left it.
Terminated == pc \in {"exit", "crashed"}

\* C14 (under FairSpec): with --once the program starts at most one cycle
\* and never sleeps an interval or a cooldown; when main returns, one cycle
\* has run to its end (lookups, reconciliation and commit, and the webhook
\* call if there was anything to report); a fault raised inside the cycle
\* ends the process with that exception; after the process has ended no
\* further step is taken; and once the store is initialised the process
\* does end.
C14_OneShot ==
    /\ [](mode = "once" =>
            /\ cycle <= 1
            /\ pc \notin {"interval", "cooldown", "stopped", "escaped"})
    /\ []((mode = "once" /\ pc = "exit") =>
            /\ cycle = 1
            /\ lastExit = "returned"
            /\ Len(requests) = Len(outcomes)
            /\ \A k \in 1..Len(outcomes) : outcomes[k] \in {"ok", "failed"}
            /\ db = txn
            /\ posts = (IF updated_mods # <<>> THEN 1 ELSE 0))
    /\ []((mode = "once" /\ lastExit = "raised") => pc = "crashed")
    /\ [][(mode = "once" /\ Terminated) => (pc' = pc /\ cycle' = cycle)]_vars
    /\ (mode = "once" /\ pc = "ready") ~> Terminated

\* main has returned after a cycle that reported a change.
C14_Witness ==
    /\ mode = "once"
    /\ pc = "exit"
    /\ cycle = 1
    /\ posts = 1
    /\ Len(requests) = 2

(* -------------------------------- C15 ---------------------------------- *)

\* C15 as claimed: when the sqlite file is gone or cannot be read at startup,
\* the constructor fails and no cycle is ever started.  The code fails for a
\* file sqlite cannot read, but sqlite3.connect creates a file that is gone
\* and the cycles then run against the empty store.
C15_NoCycleWithoutStore ==
    dbfile \in {"missing", "unreadable"} => (cycle = 0 /\ pc \in {"new", "fatal"})

(* -------------------------------- C16 ---------------------------------- *)

\* The open connection sees for id exactly what the store held before the
\* cycle (or still no row).
UntouchedInTxn(id) ==
    IF id \in DOMAIN pre
    THEN id \in DOMAIN txn /\ txn[id] = pre[id]
    ELSE id \notin DOMAIN txn

\* C16: at every point of a cycle and after it, a tracked id for which the
\* cycle has reconciled no success result (its lookup failed, the response
\* did not list it, or listed it with another result code) has its row, as
\* committed and as seen through the open connection, exactly as before the
\* cycle (last_updated, mod_name and last_checked), has no row if it had
\* none, and has no ChangeEvent in the change-set.
C16_NoResultUntouched ==
    \A id \in Tracked :
        ObsOf(id) = {} =>
            /\ Untouched(id)
            /\ UntouchedInTxn(id)
            /\ EventsFor(id) = {}

\* A cycle has ended in which the lookup for b failed and the answered
\* lookup for a gave no success result, a having a row and b having none,
\* while the clock has moved past the stored last_checked.
C16_Witness ==
    /\ Completed
    /\ outcomes = <<"ok", "failed">>
    /\ ObsOf("a") = {}
    /\ ObsOf("b") = {}
    /\ "a" \in DOMAIN pre
    /\ "b" \notin DOMAIN pre
    /\ now > pre["a"].last_checked

(* -------------------------------- C17 ---------------------------------- *)

\* The current cycle was aborted by an exception of check_for_updates.
Aborted == lastExit = "raised" /\ pc \in {"cooldown", "crashed", "escaped"}

\* C17: the committed rows change only in the commit step, which is taken
\* once per cycle, after the last batch; and when a cycle has been aborted by
\* a fault, the committed rows are exactly those from before the cycle
\* (whatever the batches reconciled before the fault had written) and the
\* webhook was not called.
C17_CycleAtomic ==
    /\ [][db' # db => (pc = "commit" /\ i >= Len(mod_ids) /\ db' = txn)]_vars
    /\ [][pc = "commit" => pc' # "commit"]_vars
    /\ [](pc = "commit" => i >= Len(mod_ids))
    /\ [](Aborted => (db = pre /\ posts = 0 /\ payload = NoPayload))

\* The second lookup raised after the first had registered a new id and
\* changed nothing else: the store is as before.
C17_Witness ==
    /\ Aborted
    /\ outcomes = <<"ok", "malformed">>
    /\ \E k \in 1..Len(seen) : seen[k].id \notin DOMAIN pre
    /\ db = pre

(* -------------------------------- C18 ---------------------------------- *)

\* The version timestamp a ChangeEvent reports (the argument of its
\* formatted time).
VersionOf(ev) == ev.updated[2]

\* C18: in continuous mode, over all cycles so far (failed lookups, aborted
\* cycles and failed deliveries included), no two of the ChangeEvents passed
\* to the webhook are for the same id and the same version timestamp; and
\* every event that was passed has its id's row committed with a
\* last_updated of at least that version (the update was committed before
\* the call and is never undone).
C18_NoDuplicateNotification ==
    mode = "monitor" =>
        /\ \A j, k \in 1..Len(handed) :
              (handed[j].id = handed[k].id /\ handed[j].updated = handed[k].updated)
              => j = k
        /\ \A k \in 1..Len(handed) :
              /\ handed[k].id \in DOMAIN db
              /\ db[handed[k].id].last_updated >= VersionOf(handed[k])

\* A second cycle has ended in which the catalog reported again the version
\* that was notified, with a failed delivery, in the first.
C18_Witness ==
    /\ mode = "monitor"
    /\ Completed
    /\ cycle = 2
    /\ Len(handed) = 1
    /\ posts = 0
    /\ \E k \in 1..Len(seen) :
          /\ seen[k].id = handed[1].id
          /\ seen[k].last_updated = VersionOf(handed[1])

(* -------------------------------- C19 ---------------------------------- *)

\* Positions in `seen` (the success entries of this cycle in the order the
\* lookups were made and, within a lookup, the order of its answer) that
\* reported the id and version of the given event.
ReportsOf(ev) ==
    {p \in 1..Len(seen) :
        seen[p].id = ev.id /\ seen[p].last_updated = VersionOf(ev)}

\* The entry that made the event: the first to report that id and version.
PosOf(ev) == CHOOSE p \in ReportsOf(ev) : \A q \in ReportsOf(ev) : p <= q

\* C19 (under SpecWide, where an answer lists several entries): entries are
\* processed batch after batch; every event of the change-set stems from an
\* entry of the cycle; and of any two events the one listed first stems from
\* the entry processed first, i.e. from an earlier lookup or from an earlier
\* place in the same answer.
C19_EventsInProcessingOrder ==
    /\ \A p, q \in 1..Len(seen) : p < q => seen[p].batch <= seen[q].batch
    /\ \A k \in 1..Len(updated_mods) : ReportsOf(updated_mods[k]) # {}
    /\ \A j, k \in 1..Len(updated_mods) :
          j < k => PosOf(updated_mods[j]) < PosOf(updated_mods[k])

\* One answer listed b before a, both changed: the change-set of the ended
\* cycle lists b first.
C19_Witness ==
    /\ Completed
    /\ Len(updated_mods) = 2
    /\ updated_mods[1].id = "b"
    /\ updated_mods[2].id = "a"
    /\ seen[PosOf(updated_mods[1])].batch = seen[PosOf(updated_mods[2])].batch

(* -------------------------------- C20 ---------------------------------- *)

\* C20 as claimed: every committed row and every ChangeEvent is for a tracked
\* id, whatever the catalog answers.  The code takes mod_id from the entry
\* of the answer and never compares it with self.mod_ids, so an answer that
\* lists another id gets a row inserted for it.
C20_OnlyTrackedRecords ==
    /\ DOMAIN db \subseteq Tracked
    /\ \A k \in 1..Len(updated_mods) : updated_mods[k].id \in Tracked

====
